---- MODULE Spec2Model ----
(***************************************************************************)
(* MQTTClient of src/mqtt.py, together with the part of the paho-mqtt 1.x  *)
(* client it drives (mqtt.Client(), loop_start(), the v1 callback          *)
(* signatures).                                                            *)
(*                                                                         *)
(* Threads.  Application code calls connect / disconnect / publish /       *)
(* subscribe from its own thread.  loop_start() starts ONE network thread; *)
(* paho runs every callback (_on_connect, _on_message, _on_disconnect) on  *)
(* it, and only that thread writes queued packets and reads the socket.    *)
(* While no network thread exists, a packet is written by the thread that  *)
(* queues it, and the callback a written DISCONNECT causes runs there.     *)
(***************************************************************************)
EXTENDS Naturals, FiniteSets, Sequences, TLC

VARIABLES
    connected,   \* self.connected
    sock,        \* the paho client's socket: "none" | "open"
    handshake,   \* CONNECT of the current socket: "none" | "queued" | "sent"
    thread,      \* the network thread of loop_start(): "none" | "running"
    terminate,   \* loop_stop() has asked the network thread to end
    netpc,       \* where the network thread is: "idle" (paho's loop) |
                 \*   "rc_test" (_reconnect, at the while test) |
                 \*   "rc_sleep" (_reconnect, in time.sleep(5))
    pc,          \* per caller: "idle" | "pub_send" | "disc_join"
    pend,        \* per caller: the arguments of the publish under way
    subSent,     \* per topic: subscribe frames handed to the transport
                 \*   since the latest successful connect acknowledgment
    pubCount,    \* publish frames handed to the transport
    lastPub,     \* the latest publish frame <<topic, payload>>
    last,        \* the latest call that returned: [op, ret]
    wanted,      \* topics the application has subscribed to (subscribe
                 \*   returned True)
    deferred,    \* topics it called subscribe for while not connected, with
                 \*   no frame handed to the transport for them so far
    lost,        \* wanted, as it was when an established connection was
                 \*   last lost without a disconnect()
    lastEvent,   \* the connection callback that ran last: "none",
                 \*   "on_connect_ok" (_on_connect with rc 0) or
                 \*   "on_disconnect"
    msgLog       \* what the latest _on_message logged: "none" (no message
                 \*   yet), "info" (the decoded payload) or "error"

vars == <<connected, sock, handshake, thread, terminate, netpc, pc, pend,
          subSent, pubCount, lastPub, last, wanted, deferred, lost, lastEvent,
          msgLog>>

transport == <<sock, handshake, thread, terminate, netpc>>
frames    == <<subSent, pubCount, lastPub>>
ghosts    == <<wanted, deferred, lost, lastEvent, msgLog>>

----------------------------------------------------------------------------
(* Bounds and inputs *)

MaxPub == 2      \* publish frames in one run
MaxSub == 2      \* subscribe frames per topic between two acknowledgments

\* The threads that call the client: the usage example (lines 133-148) has
\* one, the main thread.
Callers == {"main"}

DefaultTopic == "test_A"
Topics == {DefaultTopic, "t1"}
NoTopic == "<None>"
BadTopic == "a/#/b"     \* no valid topic: the transport raises ValueError
TopicArgs == Topics \cup {NoTopic, "", BadTopic}
Payloads == {"Hello MQTT", "(320,240)"}

\* Result codes of a connect acknowledgment or a disconnect event: 0 is
\* success, 5 stands for every other code.
ReasonCodes == {0, 5}

Nil == <<>>

----------------------------------------------------------------------------
(* Pure helpers *)

\* A publish or subscribe that passes its topic argument on as it is.
ResolveTopic_AsGiven(t) == t

\* `topic if topic else self.topic`: None and "" are both falsy.
ResolveTopic(t) == IF t = NoTopic \/ t = "" THEN DefaultTopic ELSE t

\* What client.publish / client.subscribe does with a request for topic t:
\* it raises on an invalid topic, reports an error code without a socket
\* (MQTT_ERR_NO_CONN), and takes the frame otherwise (MQTT_ERR_SUCCESS).
TransportResult(t) ==
    IF t = BadTopic THEN "raise"
    ELSE IF sock = "open" THEN "ok"
    ELSE "rc_err"

Returned(op, ret) == [op |-> op, ret |-> ret]

\* The states of the specification's connection state machine, read off the
\* client's variables.
ConnState ==
    IF connected THEN "Connected"
    ELSE IF netpc # "idle" THEN "Reconnecting"
    ELSE IF sock = "open" /\ handshake # "none" THEN "Connecting"
    ELSE "Disconnected"

----------------------------------------------------------------------------
(* State after construction *)

Init ==
    /\ connected = FALSE
    /\ sock = "none"
    /\ handshake = "none"
    /\ thread = "none"
    /\ terminate = FALSE
    /\ netpc = "idle"
    /\ pc = [c \in Callers |-> "idle"]
    /\ pend = [c \in Callers |-> Nil]
    /\ subSent = [t \in Topics |-> 0]
    /\ pubCount = 0
    /\ lastPub = Nil
    /\ last = Returned("none", "none")
    /\ wanted = {}
    /\ deferred = {}
    /\ lost = {}
    /\ lastEvent = "none"
    /\ msgLog = "none"

----------------------------------------------------------------------------
(* subscribe and publish *)

\* subscribe(topic), lines 118-129: the frames after the call ...
SubscribeFrames(base, t) ==
    IF TransportResult(ResolveTopic(t)) = "ok"
    THEN [base EXCEPT ![ResolveTopic(t)] = @ + 1]
    ELSE base

\* ... and what it returns.
SubscribeRet(t) ==
    IF TransportResult(ResolveTopic(t)) = "ok" THEN "True" ELSE "False"

\* A caller's subscribe(t).  There is no test of self.connected.
SubscribeCall(c, t) ==
    /\ pc[c] = "idle"
    /\ ResolveTopic(t) \in Topics => subSent[ResolveTopic(t)] < MaxSub
    /\ subSent' = SubscribeFrames(subSent, t)
    /\ last' = Returned("subscribe", SubscribeRet(t))
    /\ wanted' = IF SubscribeRet(t) = "True"
                 THEN wanted \cup {ResolveTopic(t)} ELSE wanted
    /\ deferred' = IF SubscribeRet(t) = "True"
                   THEN deferred \ {ResolveTopic(t)}
                   ELSE IF ResolveTopic(t) \in Topics /\ ~connected
                   THEN deferred \cup {ResolveTopic(t)}
                   ELSE deferred
    /\ UNCHANGED <<connected, transport, pc, pend, pubCount, lastPub, lost,
                   lastEvent, msgLog>>

\* publish without the test of self.connected: every call goes on to
\* client.publish.
PublishCall_NoCheck(c, t, m) ==
    /\ pc[c] = "idle"
    /\ pubCount + Cardinality({d \in Callers : pc[d] = "pub_send"}) < MaxPub
    /\ pc' = [pc EXCEPT ![c] = "pub_send"]
    /\ pend' = [pend EXCEPT ![c] = <<ResolveTopic(t), m>>]
    /\ UNCHANGED <<last, connected, transport, frames, ghosts>>

\* publish(topic, message) up to the test of self.connected, lines 92-94.
\* The caller goes on with pub_topic (line 97) and the message.
PublishCall(c, t, m) ==
    /\ pc[c] = "idle"
    /\ IF ~connected
       THEN /\ last' = Returned("publish", "False")
            /\ UNCHANGED <<pc, pend>>
       ELSE /\ pubCount + Cardinality({d \in Callers : pc[d] = "pub_send"})
                 < MaxPub
            /\ pc' = [pc EXCEPT ![c] = "pub_send"]
            /\ pend' = [pend EXCEPT ![c] = <<ResolveTopic(t), m>>]
            /\ UNCHANGED last
    /\ UNCHANGED <<connected, transport, frames, ghosts>>

\* The rest of publish, lines 96-107: client.publish and its result.
PublishSend(c) ==
    /\ pc[c] = "pub_send"
    /\ LET pub_topic == pend[c][1]
           message == pend[c][2]
           res == TransportResult(pub_topic)
       IN  /\ IF res = "ok"
              THEN /\ pubCount' = pubCount + 1
                   /\ lastPub' = <<pub_topic, message>>
                   /\ last' = Returned("publish", "True")
              ELSE /\ last' = Returned("publish", "False")
                   /\ UNCHANGED <<pubCount, lastPub>>
    /\ pc' = [pc EXCEPT ![c] = "idle"]
    /\ pend' = [pend EXCEPT ![c] = Nil]
    /\ UNCHANGED <<connected, transport, subSent, ghosts>>

----------------------------------------------------------------------------
(* connect and disconnect *)

\* A connect() that returns only once the broker has accepted the session.
ConnectCall_Synchronous(c, ok) ==
    /\ pc[c] = "idle"
    /\ IF ok
       THEN /\ sock' = "open"
            /\ handshake' = "none"
            /\ connected' = TRUE
            /\ thread' = "running"
            /\ terminate' = IF thread = "none" THEN FALSE ELSE terminate
            /\ last' = Returned("connect", "True")
       ELSE /\ sock' = "none"
            /\ handshake' = "none"
            /\ last' = Returned("connect", "False")
            /\ UNCHANGED <<connected, thread, terminate>>
    /\ UNCHANGED <<netpc, pc, pend, frames, ghosts>>

\* connect(), lines 59-65.  client.connect() closes the old socket and
\* either raises (ok = FALSE: no network) or opens a socket and sends
\* CONNECT: at once when there is no network thread, else queued for it.
\* loop_start() starts the network thread unless one exists.
ConnectCall(c, ok) ==
    /\ pc[c] = "idle"
    /\ IF ok
       THEN /\ sock' = "open"
            /\ handshake' = IF thread = "none" THEN "sent" ELSE "queued"
            /\ thread' = "running"
            /\ terminate' = IF thread = "none" THEN FALSE ELSE terminate
            /\ last' = Returned("connect", "True")
       ELSE /\ sock' = "none"
            /\ handshake' = "none"
            /\ last' = Returned("connect", "False")
            /\ UNCHANGED <<thread, terminate>>
    /\ UNCHANGED <<connected, netpc, pc, pend, frames, ghosts>>

\* disconnect(), line 79: loop_stop() asks the network thread to end and
\* joins it.
DisconnectCall(c) ==
    /\ pc[c] = "idle"
    /\ pc' = [pc EXCEPT ![c] = "disc_join"]
    /\ terminate' = IF thread = "running" THEN TRUE ELSE terminate
    /\ UNCHANGED <<connected, sock, handshake, thread, netpc, pend, frames,
                   last, ghosts>>

\* An _on_disconnect that leaves the flag as it is.
OnDisconnectFlag_Keep(rc) == connected

\* _on_disconnect(rc), lines 52-55, as far as self.connected goes; the
\* call of _reconnect() for rc # 0 is the network thread's next position.
OnDisconnectFlag(rc) == FALSE

\* An _on_disconnect that never starts the reconnect loop.
OnDisconnectNext_Never(rc) == "idle"

OnDisconnectNext(rc) == IF rc # 0 THEN "rc_test" ELSE "idle"

\* A disconnect() that takes the transport's "no connection" answer for a
\* lost connection and starts reconnecting.
DisconnectFinish_ErrorAsLoss(c) ==
    /\ pc[c] = "disc_join"
    /\ thread = "none"
    /\ IF sock = "open"
       THEN /\ connected' = FALSE
            /\ sock' = "none"
            /\ handshake' = "none"
            /\ UNCHANGED <<thread, netpc>>
       ELSE /\ connected' = FALSE
            /\ thread' = "running"
            /\ netpc' = "rc_test"
            /\ UNCHANGED <<sock, handshake>>
    /\ pc' = [pc EXCEPT ![c] = "idle"]
    /\ last' = Returned("disconnect", "None")
    /\ UNCHANGED <<terminate, pend, frames, ghosts>>

\* disconnect(), line 80, once the join is over: client.disconnect().
\* With a socket, the caller writes DISCONNECT itself (no network thread
\* is left), the socket is closed and _on_disconnect(0) runs in the
\* caller.  Without one, the transport reports MQTT_ERR_NO_CONN and no
\* callback runs.
DisconnectFinish(c) ==
    /\ pc[c] = "disc_join"
    /\ thread = "none"
    /\ IF sock = "open"
       THEN /\ connected' = OnDisconnectFlag(0)
            /\ lastEvent' = "on_disconnect"
            /\ sock' = "none"
            /\ handshake' = "none"
       ELSE UNCHANGED <<connected, lastEvent, sock, handshake>>
    /\ pc' = [pc EXCEPT ![c] = "idle"]
    /\ last' = Returned("disconnect", "None")
    /\ UNCHANGED <<thread, terminate, netpc, pend, frames, wanted, deferred,
                   lost, msgLog>>

----------------------------------------------------------------------------
(* The network thread: paho's loop and the callbacks it runs *)

NetIdle == thread = "running" /\ netpc = "idle"

\* _on_connect(rc), lines 33-39: the flag ...
OnConnectFlag(rc) == IF rc = 0 THEN TRUE ELSE connected

\* An _on_connect that does not subscribe.
OnConnectFrames_NoSubscribe(rc) ==
    IF rc = 0 THEN [t \in Topics |-> 0] ELSE subSent

\* ... and the frames: subscribe(self.topic) on success.  The count of
\* frames starts anew with every successful acknowledgment.
OnConnectFrames(rc) ==
    IF rc = 0
    THEN SubscribeFrames([t \in Topics |-> 0], DefaultTopic)
    ELSE subSent

\* The network thread writes the CONNECT that a connect()/reconnect() made
\* while it existed left in the queue.
WriteConnect ==
    /\ NetIdle
    /\ sock = "open"
    /\ handshake = "queued"
    /\ handshake' = "sent"
    /\ UNCHANGED <<connected, sock, thread, terminate, netpc, pc, pend,
                   frames, last, ghosts>>

\* The broker's acknowledgment arrives: _on_connect(rc) runs.  After a
\* refusal (rc # 0) the transport closes the socket and reports it through
\* the disconnect callback with a non-zero code, all in the same read.
DeliverConnack(rc) ==
    /\ NetIdle
    /\ sock = "open"
    /\ handshake = "sent"
    /\ handshake' = "none"
    /\ subSent' = OnConnectFrames(rc)
    /\ IF rc = 0
       THEN /\ connected' = OnConnectFlag(rc)
            /\ lastEvent' = "on_connect_ok"
            /\ deferred' = {}
            /\ UNCHANGED <<sock, netpc, lost>>
       ELSE /\ connected' = OnDisconnectFlag(rc)
            /\ lastEvent' = "on_disconnect"
            /\ sock' = "none"
            /\ netpc' = OnDisconnectNext(rc)
            /\ UNCHANGED <<deferred, lost>>
    /\ UNCHANGED <<thread, terminate, pc, pend, pubCount, lastPub, last,
                   wanted, msgLog>>

\* The connection is lost (the broker or the network drops it): the
\* transport closes the socket and runs _on_disconnect(rc) with rc # 0.
LinkLoss(rc) ==
    /\ NetIdle
    /\ sock = "open"
    /\ connected' = OnDisconnectFlag(rc)
    /\ sock' = "none"
    /\ handshake' = "none"
    /\ netpc' = OnDisconnectNext(rc)
    /\ lost' = IF connected THEN wanted ELSE lost
    /\ lastEvent' = "on_disconnect"
    /\ UNCHANGED <<thread, terminate, pc, pend, frames, last,
                   wanted, deferred, msgLog>>

\* A reconnect loop that gives up after a failed attempt.
ReconnectAttempt_GiveUp(ok) ==
    /\ thread = "running"
    /\ netpc = "rc_test"
    /\ IF connected \/ ~ok
       THEN /\ netpc' = "idle"
            /\ UNCHANGED <<sock, handshake>>
       ELSE /\ netpc' = "rc_sleep"
            /\ sock' = "open"
            /\ handshake' = "queued"
    /\ UNCHANGED <<connected, thread, terminate, pc, pend, frames, last,
                   ghosts>>

\* _reconnect(), lines 69-75, one turn of the loop: the while test, then
\* client.reconnect(), which replaces the socket and queues CONNECT (ok)
\* or raises (~ok); either way time.sleep(5) follows.
ReconnectAttempt(ok) ==
    /\ thread = "running"
    /\ netpc = "rc_test"
    /\ IF connected
       THEN /\ netpc' = "idle"
            /\ UNCHANGED <<sock, handshake>>
       ELSE /\ netpc' = "rc_sleep"
            /\ sock' = IF ok THEN "open" ELSE "none"
            /\ handshake' = IF ok THEN "queued" ELSE "none"
    /\ UNCHANGED <<connected, thread, terminate, pc, pend, frames, last, ghosts>>

\* time.sleep(5) is over, lines 72 and 75.
ReconnectWake ==
    /\ thread = "running"
    /\ netpc = "rc_sleep"
    /\ netpc' = "rc_test"
    /\ UNCHANGED <<connected, sock, handshake, thread, terminate, pc, pend,
                   frames, last, ghosts>>

\* An _on_message without its try/except: the decode error of a payload
\* that is not UTF-8 escapes into the transport's loop and ends the thread.
DeliverMessage_Uncaught(decodes) ==
    /\ NetIdle
    /\ sock = "open"
    /\ handshake = "none"
    /\ IF decodes
       THEN msgLog' = "info" /\ UNCHANGED thread
       ELSE thread' = "none" /\ UNCHANGED msgLog
    /\ UNCHANGED <<connected, sock, handshake, terminate, netpc, pc, pend,
                   frames, last, wanted, deferred, lost, lastEvent>>

\* _on_message, lines 43-48: the payload decodes and is logged, or the
\* decode error is caught and logged; nothing of the client changes.
DeliverMessage(decodes) ==
    /\ NetIdle
    /\ sock = "open"
    /\ handshake = "none"
    /\ msgLog' = IF decodes THEN "info" ELSE "error"
    /\ UNCHANGED <<connected, transport, pc, pend, frames, last, wanted,
                   deferred, lost, lastEvent>>

\* paho's loop, left without a socket by a connect() that raised, opens a
\* new connection by itself.
LoopReconnect ==
    /\ NetIdle
    /\ ~terminate
    /\ sock = "none"
    /\ sock' = "open"
    /\ handshake' = "sent"
    /\ UNCHANGED <<connected, thread, terminate, netpc, pc, pend, frames,
                   last, ghosts>>

\* The network thread ends on loop_stop()'s request, between two turns of
\* paho's loop; loop_stop()'s join is then over.
ThreadExit ==
    /\ NetIdle
    /\ terminate
    /\ thread' = "none"
    /\ UNCHANGED <<connected, sock, handshake, terminate, netpc, pc, pend,
                   frames, last, ghosts>>

----------------------------------------------------------------------------
(* Specifications *)

CallerNext ==
    \E c \in Callers :
        \/ \E ok \in BOOLEAN : ConnectCall(c, ok)
        \/ DisconnectCall(c)
        \/ DisconnectFinish(c)
        \/ \E t \in TopicArgs, m \in Payloads : PublishCall(c, t, m)
        \/ PublishSend(c)
        \/ \E t \in TopicArgs : SubscribeCall(c, t)

NetNext ==
    \/ WriteConnect
    \/ \E rc \in ReasonCodes : DeliverConnack(rc)
    \/ \E rc \in ReasonCodes \ {0} : LinkLoss(rc)
    \/ \E ok \in BOOLEAN : ReconnectAttempt(ok)
    \/ ReconnectWake
    \/ \E d \in BOOLEAN : DeliverMessage(d)
    \/ LoopReconnect
    \/ ThreadExit

Next == CallerNext \/ NetNext

Spec == Init /\ [][Next]_vars

\* The scheduler runs every thread that can take a step: the network thread
\* in paho's loop and in _reconnect, and a caller inside a call.  Nothing
\* is assumed of the application (when it calls) or the network.
Fairness ==
    /\ WF_vars(WriteConnect)
    /\ WF_vars(DeliverConnack(0))
    /\ WF_vars(\E ok \in BOOLEAN : ReconnectAttempt(ok))
    /\ WF_vars(ReconnectWake)
    /\ WF_vars(ThreadExit)
    /\ \A c \in Callers : WF_vars(PublishSend(c))
    /\ \A c \in Callers : WF_vars(DisconnectFinish(c))

FairSpec == Init /\ [][Next]_vars /\ Fairness

TypeOK ==
    /\ connected \in BOOLEAN
    /\ sock \in {"none", "open"}
    /\ handshake \in {"none", "queued", "sent"}
    /\ thread \in {"none", "running"}
    /\ terminate \in BOOLEAN
    /\ netpc \in {"idle", "rc_test", "rc_sleep"}
    /\ \A c \in Callers : pc[c] \in {"idle", "pub_send", "disc_join"}
    /\ \A t \in Topics : subSent[t] \in 0..MaxSub
    /\ pubCount \in 0..MaxPub
    /\ wanted \subseteq Topics /\ deferred \subseteq Topics /\ lost \subseteq wanted
    /\ lastEvent \in {"none", "on_connect_ok", "on_disconnect"}
    /\ msgLog \in {"none", "info", "error"}
    /\ thread = "none" => netpc = "idle"

----------------------------------------------------------------------------
(* Claims *)

\* A call of client.reconnect() by the reconnect loop.
ReconnectStep == netpc = "rc_test" /\ netpc' = "rc_sleep"

\* disconnect() has been called: it is under way, or it was the latest call
\* to return.
DisconnectRequested ==
    \/ \E c \in Callers : pc[c] = "disc_join"
    \/ last.op = "disconnect"

\* C1 (as claimed): once disconnect() has been called, the reconnect loop
\* makes no further call of client.reconnect(), also when the loop was
\* already running at the time of the call.
C1_NoReconnectAfterDisconnect ==
    [][DisconnectRequested => ~ReconnectStep]_vars

\* C2 (as claimed): every topic subscribed before an unsolicited
\* disconnection gets exactly one subscribe frame once the link is back
\* (a reconnection attempt has opened a socket) and the connection is
\* established again, unless the application disconnects first.
C2_ReplayAfterReconnect ==
    \A t \in Topics :
        [](t \in lost /\ netpc # "idle" /\ sock = "open"
              => <>((connected /\ subSent[t] = 1) \/ DisconnectRequested))

\* C3: a publish called while self.connected is false returns False in
\* that one step (the caller is idle again, nothing is left pending) and
\* hands no frame to the transport.
C3_PublishRejected ==
    [][\A c \in Callers, t \in TopicArgs, m \in Payloads :
         (PublishCall(c, t, m) /\ ~connected)
            => /\ last' = Returned("publish", "False")
               /\ pc'[c] = "idle" /\ pend'[c] = Nil
               /\ frames' = frames]_vars

\* C3's case: a publish was rejected while the first connection attempt
\* was under way (no acknowledgment has ever arrived).
C3_Witness ==
    /\ ConnState = "Connecting"
    /\ subSent[DefaultTopic] = 0
    /\ last = Returned("publish", "False")
    /\ pubCount = 0

\* C4 (as claimed): a subscribe called while self.connected is false
\* returns False and hands no subscribe frame to the transport.
C4_SubscribeRejected ==
    [][\A c \in Callers, t \in TopicArgs :
         (SubscribeCall(c, t) /\ ~connected)
            => /\ last' = Returned("subscribe", "False")
               /\ subSent' = subSent]_vars

\* C5 (as claimed): after an unsolicited disconnection, once a
\* reconnection attempt has succeeded (the loop has a socket again), the
\* client is eventually connected and out of the reconnect loop, unless
\* the application disconnects first.
C5_ReconnectSucceeds ==
    [](netpc # "idle" /\ sock = "open"
          => <>((connected /\ netpc = "idle") \/ DisconnectRequested))

\* C6 (as claimed): while the reconnect loop is running (in an attempt or
\* in its wait), every call that is under way returns.
C6_CallersNotBlocked ==
    \A c \in Callers :
        [](netpc # "idle" /\ pc[c] # "idle" => <>(pc[c] = "idle"))

\* C7 (as claimed): a disconnect() that has been called returns with the
\* client in Disconnected: self.connected false and no reconnect loop.
C7_DisconnectReachesDisconnected ==
    \A c \in Callers :
        [](pc[c] = "disc_join"
              => <>(pc[c] = "idle" /\ ConnState = "Disconnected"))

\* C8 (as claimed): a failed connection attempt (the transport raises in
\* connect(), or the acknowledgment carries a failure code) leaves the
\* client in Disconnected, with no reconnect loop; connect() returns False
\* when the transport raised.
C8_FailedConnectEndsDisconnected ==
    [][/\ (\E c \in Callers : ConnectCall(c, FALSE))
             /\ ConnState = "Disconnected"
          => ConnState' = "Disconnected"
                /\ last' = Returned("connect", "False")
       /\ (\E rc \in ReasonCodes \ {0} : DeliverConnack(rc)) /\ ~connected
          => ConnState' = "Disconnected"]_vars

\* C9 (as claimed): a connect() called while an attempt is in flight
\* returns False and dispatches nothing: the socket and the pending
\* CONNECT stay as they are.
C9_SecondConnectFailsFast ==
    [][\A c \in Callers, ok \in BOOLEAN :
         (ConnectCall(c, ok) /\ ConnState = "Connecting")
            => /\ last' = Returned("connect", "False")
               /\ <<sock, handshake>>' = <<sock, handshake>>]_vars

\* C10 (as claimed): a topic the application called subscribe for while
\* not connected, and for which no frame went out then, gets its subscribe
\* frame when the client becomes Connected.
C10_DeferredSubscribeSent ==
    [][DeliverConnack(0) => \A t \in deferred : subSent'[t] >= 1]_vars

\* C11: a disconnect() that follows a disconnect() (the latest call to
\* return) changes nothing: the flag, the transport (no frame is written,
\* the socket stays as it is, no thread is started or asked to stop, the
\* reconnect loop is not entered) and the frames are as the first call
\* left them, and the call returns the same.
C11_DisconnectIdempotent ==
    [][\A c \in Callers :
         (last.op = "disconnect" /\ (DisconnectCall(c) \/ DisconnectFinish(c)))
            => /\ <<connected, transport, frames, last>>'
                     = <<connected, transport, frames, last>>
               /\ ConnState' = ConnState
               /\ ~ReconnectStep]_vars

\* C11's case: a second disconnect() is under way after a first one, on a
\* client that had a connection carrying a subscribe frame.
C11_Witness ==
    /\ \E c \in Callers : pc[c] = "disc_join"
    /\ last.op = "disconnect"
    /\ subSent[DefaultTopic] >= 1
    /\ ConnState = "Disconnected"

\* C12: a client in Reconnecting stays there unless the connection is
\* restored or a disconnect() was called, and it keeps attempting: every
\* backoff wait is followed by another test of the loop condition and every
\* such test, the flag still being false, by another attempt, without a cap.
C12_RetryWithoutCap ==
    /\ [][ConnState = "Reconnecting"
            => \/ ConnState' = "Reconnecting"
               \/ connected'
               \/ DisconnectRequested']_vars
    /\ [](netpc = "rc_sleep" => <>(netpc = "rc_test"))
    /\ [](netpc = "rc_test" /\ ~connected => <>(netpc = "rc_sleep"))

\* C12's case: the loop is in its backoff wait after an attempt that failed.
C12_Witness ==
    /\ ConnState = "Reconnecting"
    /\ netpc = "rc_sleep"
    /\ sock = "none"

\* C13: publish(topic, message) called while the flag is true makes one
\* call of the transport's publish, with the given topic (the default topic
\* when none is given) and the given message, and hands nothing over before
\* that call; the call returns True and one frame with that topic and
\* message is handed over when the transport reports success, and it
\* returns False with no frame when the transport reports an error.
C13_PublishOneFrame ==
    [][\A c \in Callers :
         /\ \A t \in TopicArgs, m \in Payloads :
               (PublishCall(c, t, m) /\ connected)
                  => /\ pc'[c] = "pub_send"
                     /\ pend'[c] = <<IF t \in {NoTopic, ""}
                                     THEN DefaultTopic ELSE t, m>>
                     /\ frames' = frames
         /\ PublishSend(c)
               => /\ pc'[c] = "idle"
                  /\ subSent' = subSent
                  /\ IF TransportResult(pend[c][1]) = "ok"
                     THEN /\ pubCount' = pubCount + 1
                          /\ lastPub' = pend[c]
                          /\ last' = Returned("publish", "True")
                     ELSE /\ <<pubCount, lastPub>>' = <<pubCount, lastPub>>
                          /\ last' = Returned("publish", "False")]_vars

\* C13's case: a publish on an acknowledged connection has handed over its
\* frame, carrying the default topic, and returned True.
C13_Witness ==
    /\ connected
    /\ sock = "open"
    /\ last = Returned("publish", "True")
    /\ pubCount = 1
    /\ lastPub = <<DefaultTopic, "Hello MQTT">>

\* C14 (as claimed): on an acknowledged connection no topic has had more
\* than one subscribe frame handed to the transport since the
\* acknowledgment, however many times it was subscribed.
C14_OneFramePerTopic ==
    connected => \A t \in Topics : subSent[t] <= 1

C16_ConnectReturnsBeforeAck ==
    [][/\ \A c \in Callers :
            (ConnectCall(c, TRUE) /\ ~connected)
               => /\ last' = Returned("connect", "True")
                  /\ ~connected'
                  /\ sock' = "open"
                  /\ handshake' \in {"queued", "sent"}
       /\ (~connected /\ connected') => DeliverConnack(0)
       /\ \A c \in Callers, t \in TopicArgs, m \in Payloads :
            (PublishCall(c, t, m) /\ ~connected /\ handshake # "none")
               => /\ last' = Returned("publish", "False")
                  /\ frames' = frames]_vars

\* C16's case: connect() has returned, its CONNECT is written and not yet
\* acknowledged, and a publish made in that window has returned False.
C16_Witness ==
    /\ ~connected
    /\ thread = "running"
    /\ sock = "open"
    /\ handshake = "sent"
    /\ last = Returned("publish", "False")
    /\ wanted = {}

\* C17: the reconnect loop is entered only in a step that delivers a
\* disconnect event with a non-zero code, every such step enters it with
\* the flag false, and the code-0 event of a local disconnect() that closes
\* a socket leaves the flag false and the loop not entered.
C17_ReconnectIffNonZero ==
    [][/\ (netpc = "idle" /\ netpc' # "idle")
            => \E rc \in ReasonCodes \ {0} : LinkLoss(rc) \/ DeliverConnack(rc)
       /\ \A rc \in ReasonCodes \ {0} :
            (LinkLoss(rc) \/ DeliverConnack(rc))
               => (netpc' = "rc_test" /\ ~connected')
       /\ \A c \in Callers :
            (DisconnectFinish(c) /\ sock = "open")
               => (~connected' /\ netpc' = "idle" /\ sock' = "none")]_vars

\* C17's case: an unsolicited disconnection of a connection that had
\* carried a publish has put the network thread into the reconnect loop.
C17_Witness ==
    /\ netpc = "rc_test"
    /\ ~connected
    /\ sock = "none"
    /\ pubCount >= 1

\* C18: in every reachable state the flag is true only if the connection
\* callback that ran last was _on_connect with reason code 0: no refused
\* acknowledgment and no disconnect event, solicited or not, is followed by
\* a state with the flag true.
C18_FlagOnlyAfterAck ==
    connected => lastEvent = "on_connect_ok"

\* C18's case: the flag is true in a state whose latest connection callback
\* is the success acknowledgment of the open connection.
C18_Witness ==
    /\ connected
    /\ lastEvent = "on_connect_ok"
    /\ sock = "open"
    /\ handshake = "none"
    /\ subSent[DefaultTopic] = 1

\* C19: the delivery of a success acknowledgment hands exactly one
\* subscribe frame to the transport, for the default topic, and no other
\* frame, whatever the application has called before; the delivery of a
\* refused acknowledgment hands over no frame at all.
C19_AckSubscribesDefault ==
    [][/\ DeliverConnack(0)
            => /\ subSent' = [t \in Topics |->
                                IF t = DefaultTopic THEN 1 ELSE 0]
               /\ <<pubCount, lastPub>>' = <<pubCount, lastPub>>
       /\ \A rc \in ReasonCodes \ {0} :
            DeliverConnack(rc) => frames' = frames]_vars

\* C19's case: a success acknowledgment has been delivered to a client
\* whose application has called nothing but connect().
C19_Witness ==
    /\ connected
    /\ last.op = "connect"
    /\ wanted = {}
    /\ subSent[DefaultTopic] = 1
    /\ subSent["t1"] = 0

\* C20: the delivery of a message, its payload decodable or not, changes
\* neither the flag nor the connection state, hands no frame to the
\* transport, disturbs no call under way and leaves the network thread
\* running and ready for the next event.
C20_MessageLeavesClientAlone ==
    [][\A d \in BOOLEAN :
         DeliverMessage(d)
            => /\ connected' = connected
               /\ ConnState' = ConnState
               /\ transport' = transport
               /\ frames' = frames
               /\ <<pc, pend, last>>' = <<pc, pend, last>>
               /\ NetIdle']_vars

\* C20's case: a message whose payload does not decode has been delivered
\* and the client is connected with its network thread running.
C20_Witness ==
    /\ msgLog = "error"
    /\ connected
    /\ sock = "open"
    /\ thread = "running"
    /\ netpc = "idle"

====
